---- MODULE Spec2Model ----
(***************************************************************************)
(* Order / payment lifecycle of the be-bcv order service.                  *)
(*                                                                         *)
(* The relational store is modelled table by table (orders, order_items,   *)
(* order_status_histories, payments, carts, and the products of the        *)
(* product service's database).  Every request runs as its own             *)
(* process p; a process position pc[p] is the statement of the repository  *)
(* method it has reached.  The store is PostgreSQL opened by gorm with the *)
(* default isolation (READ COMMITTED): a plain SELECT takes no lock, an    *)
(* UPDATE of a row waits for the transaction that holds the row, and a     *)
(* transaction's writes become visible at its commit.                      *)
(*                                                                         *)
(* The repository layer (internal/repository/order_repository.go) is       *)
(* translated from its code.  The service layer of the order service       *)
(* (service.NewOrderService, service.NewPaymentService, constructed in     *)
(* cmd/user-service/main.go:152-154) has no source in the repository; the  *)
(* decisions it takes (edge validation, idempotency guard, amount guard,   *)
(* the order of a checkout's writes)                                       *)
(* follow the design document, and each of its writes is a call of a       *)
(* repository method.  The services receive repositories, never the        *)
(* database handle, so no service step shares a transaction with a         *)
(* repository method.                                                      *)
(***************************************************************************)
EXTENDS Integers, Sequences, FiniteSets, TLC

\* ------------------------------------------------------------------ bounds
MaxOrders == 2
NumProcs == 2
MaxRows == 5
MaxProducts == 2
MaxStock == 2
MaxLines == 2
MaxQty == 2
MaxPrice == 2
MaxAccounts == 2
MaxEmails == 2
MaxTime == 1

Orders == 1..MaxOrders
Procs == 1..NumProcs
Products == 1..MaxProducts
Lines == 1..MaxLines
Quantities == 1..MaxQty
Prices == 1..MaxPrice
Accounts == 1..MaxAccounts
Emails == 1..MaxEmails
Times == 0..MaxTime

\* The price of every product before the first price change.
InitialPrice == 1

\* The user whose cart the checkouts are followed for, and another user.
Buyer == 1
Other == 2
Users == {Buyer, Other}

\* ------------------------------------------------------------------ values
\* models.Order.Status: pending, confirmed, shipped, delivered, cancelled
Statuses == {"pending", "confirmed", "shipped", "delivered", "cancelled"}

\* The transition table of the order state machine.
AllowedTransitions ==
    { <<"pending", "confirmed">>, <<"pending", "cancelled">>,
      <<"confirmed", "shipped">>, <<"confirmed", "cancelled">>,
      <<"shipped", "delivered">> }

\* Payment statuses a gateway callback maps to, and the terminal ones.
CallbackStatuses == {"paid", "failed"}
TerminalPayment == {"paid", "failed", "refunded"}

\* The total the checkout computed for order o, and the amounts a callback
\* may carry (each of them some order's total).
SubtotalOf(o) == 8 * o
ShippingOf(o) == 2 * o
TotalOf(o) == SubtotalOf(o) + ShippingOf(o)
Amounts == {TotalOf(o) : o \in Orders}

\* Payment ids: the payments table holds at most as many rows as the
\* orders table; a row may belong to any order.
PayIDs == Orders

\* uuid.Nil: the zero value of Order.PaymentID
NilID == 0

\* A slot of the orders table that holds no row.
NoOrder == [present |-> FALSE, status |-> "", totalAmount |-> 0,
            subtotal |-> 0, shippingCost |-> 0,
            paymentID |-> NilID, paymentStatus |-> ""]

\* A slot of the payments table that holds no row.
NoPayment == [present |-> FALSE, orderID |-> NilID, amount |-> 0,
              status |-> "", paidAt |-> FALSE]

\* A slot of the carts table: "none" before a row with this id is
\* inserted, "live" while it exists, "deleted" after its DELETE (an id is
\* never handed out twice).
NoLine == [state |-> "none", user |-> 0, product |-> 0, quantity |-> 0]

\* A process that runs no request.
\* A key of the product cache that holds nothing.
NoEntry == [present |-> FALSE, price |-> 0, stock |-> 0]

\* models.User: the columns the user service decides on.
NoUser == [present |-> FALSE, email |-> 0, active |-> FALSE,
           deleted |-> FALSE]

\* generateTokens, the refresh token: an HS256 signature over the claims
\* user_id, exp = now + 7 days and iat = now, the clock read in seconds.
\* The string is a function of the user and of the second.
RefreshTokenOf(account, second) == [user |-> account, iat |-> second]
TokenValues == {RefreshTokenOf(a, t) : a \in Accounts, t \in Times}
NoToken == [user |-> 0, iat |-> 0]

NoArg == [o |-> 0, to |-> "", obs |-> "", k |-> NilID, order |-> NoOrder,
          lines |-> <<>>, n |-> 0, seen |-> 0,
          line |-> 0, user |-> 0, product |-> 0, quantity |-> 0,
          email |-> 0, account |-> 0, token |-> NoToken, fresh |-> NoToken]

VARIABLES
    orders,     \* orders table: order id -> row
    history,    \* order_status_histories: order id -> rows in insertion order
    payments,   \* payments table: payment id -> row
    pc,         \* process -> statement reached
    arg,        \* process -> arguments and locals of the running request
    res,        \* outcome of the request that finished last
    nTrans,     \* order id -> number of UpdateOrderStatus calls that returned nil
    stock,      \* products table (product database): product id -> stock
    cart,       \* carts table: line id -> row
    items,      \* order_items: order id -> rows in insertion order
    added,      \* product id -> quantities of the buyer's AddToCart calls that
                \* returned nil since a line of the product was last removed
                \* or set
    price,      \* products table (product database): product id -> price
    events,     \* orders whose order-created event reached the broker
    cache,      \* product cache (key product:<id>): product id -> entry
    users,      \* users table: account id -> row
    tokens,     \* refresh token store (keys refresh_token:<token>)
    now,        \* the clock, in seconds
    used,       \* refresh tokens a RefreshToken call has succeeded with
    loggedOut,  \* refresh tokens a Logout call has completed for
    reviews     \* product_reviews: <<user, product>> -> number of rows

vars == <<orders, history, payments, pc, arg, res, nTrans, stock, cart, items,
          added, price, events, cache, users, tokens, now, used, loggedOut,
          reviews>>

\* ------------------------------------------------------------------ helpers
\* gorm:"default:pending" on Order.Status and Payment.Status: a zero value
\* is stored as the column default and read back into the struct.
StatusDefault(status) == IF status = "" THEN "pending" ELSE status

\* The row CreateOrder inserts into order_status_histories.
CreationHistory(order) ==
    [fromStatus |-> "", toStatus |-> order.status, notes |-> "Order created"]

\* TransitionHistory with the two statuses confused: ToStatus is written
\* from the order that was read.
TransitionHistoryStale(observed, status, notes) ==
    [fromStatus |-> observed, toStatus |-> observed, notes |-> notes]

\* The row UpdateOrderStatus inserts: FromStatus is order.Status and ToStatus
\* the requested status.  The order struct was filled by the SELECT with the
\* observed status, but tx.Model(&order).Update("status", status) has
\* assigned the new value to the struct's field before the row is built, so
\* order.Status is the requested status by then.
TransitionHistory(observed, status, notes) ==
    [fromStatus |-> status, toStatus |-> status, notes |-> notes]

\* InsertHistory as an update in place: the latest row of the order is
\* overwritten with the new one.
InsertHistoryOverwrite(rows, row) ==
    IF rows = <<>> THEN <<row>> ELSE [rows EXCEPT ![Len(rows)] = row]

\* InsertHistory that writes nothing.
InsertHistoryDropped(rows, row) == rows

\* tx.Create(history): the row is appended to the order's history.
InsertHistory(rows, row) == Append(rows, row)

\* UPDATE orders SET status = ? WHERE id = ?
SetStatus(order, status) == [order EXCEPT !.status = status]

\* SetOrderPayment that also cancels the order of a failed payment.
SetOrderPaymentCancelling(order, paymentID, paymentStatus) ==
    [order EXCEPT !.paymentID = paymentID, !.paymentStatus = paymentStatus,
                  !.status = IF paymentStatus = "failed" THEN "cancelled" ELSE @]

\* OrderRepository.UpdatePaymentStatus:
\* UPDATE orders SET payment_id = ?, payment_status = ? WHERE id = ?
SetOrderPayment(order, paymentID, paymentStatus) ==
    [order EXCEPT !.paymentID = paymentID, !.paymentStatus = paymentStatus]

\* PaymentRepository.UpdatePaymentStatus: UPDATE payments SET status = ?
\* [, paid_at = now when status is "paid"] WHERE id = ?
SetPaymentStatus(payment, status) ==
    [payment EXCEPT !.status = status,
                    !.paidAt = IF status = "paid" THEN TRUE ELSE @]

\* The transaction of process q holds the row lock of order o (it has run
\* its UPDATE and has not yet committed or rolled back).
HoldsRow(q, o) == pc[q] = "uos_updated" /\ arg[q].o = o

\* Rows of orders, of order_status_histories and of payments, plus the
\* requests in flight that may still insert one.
OrderCount == Cardinality({o \in Orders : orders[o].present})

RECURSIVE RowCount(_)
RowCount(n) == IF n = 0 THEN 0 ELSE Len(history[n]) + RowCount(n - 1)

PaymentCount == Cardinality({k \in PayIDs : payments[k].present})

\* A payment row of order o exists.
HasPayment(o) == \E k \in PayIDs : payments[k].present /\ payments[k].orderID = o

InFlight == Cardinality({q \in Procs : pc[q] # "idle"})

\* The store has room for one more row.
RoomForRow ==
    OrderCount + RowCount(MaxOrders) + PaymentCount + InFlight < MaxRows

\* No request is running.
AllIdle == \A p \in Procs : pc[p] = "idle"

\* A new request is served by the lowest free process (the processes are
\* interchangeable request slots).
Free(p) == pc[p] = "idle" /\ \A q \in Procs : q < p => pc[q] # "idle"

Finish(p, outcome) ==
    /\ pc' = [pc EXCEPT ![p] = "idle"]
    /\ arg' = [arg EXCEPT ![p] = NoArg]
    /\ res' = outcome

Goto(p, label, locals) ==
    /\ pc' = [pc EXCEPT ![p] = label]
    /\ arg' = [arg EXCEPT ![p] = locals]
    /\ UNCHANGED res

\* ------------------------------------------------------------------ Init
Init ==
    /\ orders = [o \in Orders |-> NoOrder]
    /\ history = [o \in Orders |-> <<>>]
    /\ payments = [k \in PayIDs |-> NoPayment]
    /\ pc = [p \in Procs |-> "idle"]
    /\ arg = [p \in Procs |-> NoArg]
    /\ res = ""
    /\ nTrans = [o \in Orders |-> 0]
    /\ stock = [i \in Products |-> MaxStock]
    /\ cart = [l \in Lines |-> NoLine]
    /\ items = [o \in Orders |-> <<>>]
    /\ added = [i \in Products |-> <<>>]
    /\ price = [i \in Products |-> InitialPrice]
    /\ events = {}
    /\ cache = [i \in Products |-> NoEntry]
    /\ users = [a \in Accounts |-> NoUser]
    /\ tokens = {}
    /\ now = 0
    /\ used = {}
    /\ loggedOut = {}
    /\ reviews = [r \in Users \X Products |-> 0]

\* ------------------------------------------------------------------ OrderRepository.CreateOrder
\* One transaction: INSERT the order, INSERT its first history row, commit.
\* Ids are handed out in order (uuid.New never repeats).
CreateOrder(p, o, status, total) ==
    /\ Free(p)
    /\ RoomForRow
    /\ ~orders[o].present
    /\ \A n \in Orders : n < o => orders[n].present
    /\ LET order == [present |-> TRUE, status |-> StatusDefault(status),
                     totalAmount |-> total,
                     subtotal |-> SubtotalOf(o), shippingCost |-> ShippingOf(o),
                     paymentID |-> NilID, paymentStatus |-> "pending"]
       IN /\ orders' = [orders EXCEPT ![o] = order]
          /\ history' = [history EXCEPT ![o] =
                            InsertHistory(@, CreationHistory(order))]
    /\ Finish(p, "ok")
    /\ UNCHANGED <<payments, nTrans>>
    /\ UNCHANGED <<stock, cart, items, added>>
    /\ UNCHANGED <<price, events, cache>>
    /\ UNCHANGED <<users, tokens, now, used, loggedOut, reviews>>

\* Either INSERT fails: the transaction rolls back and nothing is written.
CreateOrderFails(p, o) ==
    /\ Free(p)
    /\ ~orders[o].present
    /\ \A n \in Orders : n < o => orders[n].present
    /\ Finish(p, "error")
    /\ UNCHANGED <<orders, history, payments, nTrans>>
    /\ UNCHANGED <<stock, cart, items, added>>
    /\ UNCHANGED <<price, events, cache>>
    /\ UNCHANGED <<users, tokens, now, used, loggedOut, reviews>>

\* ------------------------------------------------------------------ TransitionOrder (service)
\* The service reads the order, validates the edge against the table and
\* calls OrderRepository.UpdateOrderStatus.
TransitionOrder(p, o, to) ==
    /\ Free(p)
    /\ RoomForRow
    /\ IF ~orders[o].present
       THEN Finish(p, "NotFoundError")
       ELSE IF <<orders[o].status, to>> \notin AllowedTransitions
       THEN Finish(p, "InvalidTransitionError")
       ELSE Goto(p, "uos_begin", [NoArg EXCEPT !.o = o, !.to = to])
    /\ UNCHANGED <<orders, history, payments, nTrans>>
    /\ UNCHANGED <<stock, cart, items, added>>
    /\ UNCHANGED <<price, events, cache>>
    /\ UNCHANGED <<users, tokens, now, used, loggedOut, reviews>>

\* ------------------------------------------------------------------ OrderRepository.UpdateOrderStatus
\* tx.Where("id = ?", orderID).First(&order): a plain SELECT; no row is
\* gorm.ErrRecordNotFound, which ends the transaction.
UOS_Select(p) ==
    /\ pc[p] = "uos_begin"
    /\ IF ~orders[arg[p].o].present
       THEN Finish(p, "error")
       ELSE Goto(p, "uos_read", [arg[p] EXCEPT !.obs = orders[arg[p].o].status])
    /\ UNCHANGED <<orders, history, payments, nTrans>>
    /\ UNCHANGED <<stock, cart, items, added>>
    /\ UNCHANGED <<price, events, cache>>
    /\ UNCHANGED <<users, tokens, now, used, loggedOut, reviews>>

\* tx.Model(&order).Update("status", status): takes the row lock, waiting
\* for any transaction that holds it.
UOS_Update(p) ==
    /\ pc[p] = "uos_read"
    /\ \A q \in Procs : ~HoldsRow(q, arg[p].o)
    /\ Goto(p, "uos_updated", arg[p])
    /\ UNCHANGED <<orders, history, payments, nTrans>>
    /\ UNCHANGED <<stock, cart, items, added>>
    /\ UNCHANGED <<price, events, cache>>
    /\ UNCHANGED <<users, tokens, now, used, loggedOut, reviews>>

\* tx.Create(history) and the commit: both writes become visible.  The
\* caller then returns, or (a cancellation) goes on to restore the stock.
UOS_Commit(p) ==
    /\ pc[p] = "uos_updated"
    /\ LET o == arg[p].o
           notes == IF arg[p].k = NilID THEN "transition" ELSE "payment"
       IN /\ orders' = [orders EXCEPT ![o] = SetStatus(@, arg[p].to)]
          /\ history' = [history EXCEPT ![o] =
                InsertHistory(@, TransitionHistory(arg[p].obs, arg[p].to, notes))]
          /\ nTrans' = [nTrans EXCEPT ![o] = @ + 1]
    /\ IF arg[p].lines = <<>>
       THEN Finish(p, "ok")
       ELSE Goto(p, "cx_stock", [arg[p] EXCEPT !.n = 1])
    /\ UNCHANGED payments
    /\ UNCHANGED <<stock, cart, items, added>>
    /\ UNCHANGED <<price, events, cache>>
    /\ UNCHANGED <<users, tokens, now, used, loggedOut, reviews>>

\* A statement of the transaction returns an error (or the process dies
\* inside the transaction): the transaction rolls back.
UOS_Rollback(p) ==
    /\ pc[p] \in {"uos_begin", "uos_read", "uos_updated"}
    /\ Finish(p, "rollback")
    /\ UNCHANGED <<orders, history, payments, nTrans>>
    /\ UNCHANGED <<stock, cart, items, added>>
    /\ UNCHANGED <<price, events, cache>>
    /\ UNCHANGED <<users, tokens, now, used, loggedOut, reviews>>

\* ------------------------------------------------------------------ PaymentRepository.CreatePayment
\* A payment amount taken from the order's subtotal, the shipping cost left
\* out.
PaymentAmountSubtotal(order) == order.subtotal

\* The amount of a new payment: the total of its order.
PaymentAmount(order) == order.totalAmount

\* INSERT INTO payments: the service copies the order's total.
CreatePayment(p, k, o) ==
    /\ Free(p)
    /\ RoomForRow
    /\ orders[o].present
    /\ ~payments[k].present
    /\ \A n \in PayIDs : n < k => payments[n].present
    /\ payments' = [payments EXCEPT ![k] =
            [present |-> TRUE, orderID |-> o, amount |-> PaymentAmount(orders[o]),
             status |-> StatusDefault(""), paidAt |-> FALSE]]
    /\ Finish(p, "ok")
    /\ UNCHANGED <<orders, history, nTrans>>
    /\ UNCHANGED <<stock, cart, items, added>>
    /\ UNCHANGED <<price, events, cache>>
    /\ UNCHANGED <<users, tokens, now, used, loggedOut, reviews>>

\* ------------------------------------------------------------------ ApplyCallback (service)
\* CallbackDecision without the idempotency guard: a callback on a payment
\* that already has the status is applied again.
CallbackDecisionNoGuard(payment, status, amount) ==
    IF ~payment.present THEN "UnknownPaymentError"
    ELSE IF payment.status \in TerminalPayment /\ payment.status # status
    THEN "ConflictingPaymentStateError"
    ELSE IF amount # payment.amount THEN "AmountMismatchError"
    ELSE "apply"

\* CallbackDecision without the amount guard.
CallbackDecisionNoAmount(payment, status, amount) ==
    IF ~payment.present THEN "UnknownPaymentError"
    ELSE IF payment.status \in TerminalPayment /\ payment.status = status
    THEN "ok_duplicate"
    ELSE IF payment.status \in TerminalPayment
    THEN "ConflictingPaymentStateError"
    ELSE "apply"

\* Steps 1-3 on the payment row that was read: unknown payment, idempotency
\* guard (a duplicate is a success that writes nothing), conflict, amount
\* guard; "apply" when the callback goes on to step 4.
CallbackDecision(payment, status, amount) ==
    IF ~payment.present THEN "UnknownPaymentError"
    ELSE IF payment.status \in TerminalPayment /\ payment.status = status
    THEN "ok_duplicate"
    ELSE IF payment.status \in TerminalPayment
    THEN "ConflictingPaymentStateError"
    ELSE IF amount # payment.amount THEN "AmountMismatchError"
    ELSE "apply"

\* GetPaymentByID without its WHERE clause taking effect when the id
\* matches nothing: the first payment of the table is returned instead.
GetPaymentByIDOrFirst(k) ==
    IF payments[k].present \/ \A n \in PayIDs : ~payments[n].present
    THEN payments[k]
    ELSE payments[CHOOSE n \in PayIDs : payments[n].present]

\* PaymentRepository.GetPaymentByID: the row with the id, or nil (here the
\* empty slot) with no error when there is none.
GetPaymentByID(k) == payments[k]

\* The callback handler: it reads the payment (GetPaymentByID), decides, and
\* either returns or goes on to the writes of step 4.
ApplyCallback(p, k, status, amount) ==
    /\ Free(p)
    /\ LET payment == GetPaymentByID(k)
           decision == CallbackDecision(payment, status, amount)
       IN IF decision = "apply"
          THEN /\ RoomForRow
               /\ Goto(p, "cb_pay",
                       [NoArg EXCEPT !.o = payment.orderID, !.k = k,
                                     !.to = status])
          ELSE Finish(p, decision)
    /\ UNCHANGED <<orders, history, payments, nTrans>>
    /\ UNCHANGED <<stock, cart, items, added>>
    /\ UNCHANGED <<price, events, cache>>
    /\ UNCHANGED <<users, tokens, now, used, loggedOut, reviews>>

\* Step 4, first write: PaymentRepository.UpdatePaymentStatus.
CB_UpdatePayment(p) ==
    /\ pc[p] = "cb_pay"
    /\ payments' = [payments EXCEPT ![arg[p].k] = SetPaymentStatus(@, arg[p].to)]
    /\ Goto(p, "cb_link", arg[p])
    /\ UNCHANGED <<orders, history, nTrans>>
    /\ UNCHANGED <<stock, cart, items, added>>
    /\ UNCHANGED <<price, events, cache>>
    /\ UNCHANGED <<users, tokens, now, used, loggedOut, reviews>>

\* Step 4, second write: OrderRepository.UpdatePaymentStatus, an UPDATE of
\* the order row (it waits for a transaction that holds the row).  A failed
\* payment leaves the order status alone.
CB_UpdateOrderPayment(p) ==
    /\ pc[p] = "cb_link"
    /\ \A q \in Procs : ~HoldsRow(q, arg[p].o)
    /\ orders' = [orders EXCEPT ![arg[p].o] =
                      SetOrderPayment(@, arg[p].k, arg[p].to)]
    /\ IF arg[p].to = "paid"
       THEN Goto(p, "cb_order", arg[p])
       ELSE Finish(p, "ok")
    /\ UNCHANGED <<history, payments, nTrans>>
    /\ UNCHANGED <<stock, cart, items, added>>
    /\ UNCHANGED <<price, events, cache>>
    /\ UNCHANGED <<users, tokens, now, used, loggedOut, reviews>>

\* Step 4, the order transition pending|confirmed -> confirmed: a pending
\* order goes through OrderRepository.UpdateOrderStatus.
CB_Transition(p) ==
    /\ pc[p] = "cb_order"
    /\ LET status == orders[arg[p].o].status
       IN IF status = "pending"
          THEN Goto(p, "uos_begin", [arg[p] EXCEPT !.to = "confirmed"])
          ELSE IF status = "confirmed"
          THEN Finish(p, "ok")
          ELSE Finish(p, "InvalidTransitionError")
    /\ UNCHANGED <<orders, history, payments, nTrans>>
    /\ UNCHANGED <<stock, cart, items, added>>
    /\ UNCHANGED <<price, events, cache>>
    /\ UNCHANGED <<users, tokens, now, used, loggedOut, reviews>>

\* The process dies, or a repository call returns an error, between two
\* repository calls: what was committed stays.
CB_Abort(p) ==
    /\ pc[p] \in {"cb_pay", "cb_link", "cb_order"}
    /\ Finish(p, "aborted")
    /\ UNCHANGED <<orders, history, payments, nTrans>>
    /\ UNCHANGED <<stock, cart, items, added>>
    /\ UNCHANGED <<price, events, cache>>
    /\ UNCHANGED <<users, tokens, now, used, loggedOut, reviews>>

\* ------------------------------------------------------------------ CartRepository.AddToCart
\* The live lines of the user that hold the product.
LinesOfUser(u, product) ==
    {l \in Lines : /\ cart[l].state = "live"
                   /\ cart[l].user = u
                   /\ cart[l].product = product}

\* The live lines of the buyer's cart that hold the product.
LinesOf(product) == LinesOfUser(Buyer, product)

\* Line ids not yet handed out, beyond those the running inserts will take.
FreshLineLeft ==
    Cardinality({l \in Lines : cart[l].state = "none"})
        > Cardinality({q \in Procs : pc[q] = "atc_create"})

\* The quantities the cart service lets through to the repository.
ValidQuantity(quantity) == quantity > 0

\* The request of user u: a quantity that is not valid is refused before the
\* repository is called.  Then
\* r.db.Where("user_id = ? AND product_id = ?").First(&existingCart): a line
\* that was found is kept with its quantity raised, for the Save; none found
\* leads to the Create.
AddToCartAs(p, u, product, quantity) ==
    /\ Free(p)
    /\ IF ~ValidQuantity(quantity)
       THEN Finish(p, "ValidationError")
       ELSE IF LinesOfUser(u, product) = {}
       THEN /\ FreshLineLeft
            /\ Goto(p, "atc_create",
                    [NoArg EXCEPT !.user = u, !.product = product,
                                  !.quantity = quantity])
       ELSE \E l \in LinesOfUser(u, product) :
                /\ cart[l].quantity + quantity <= MaxQty
                /\ Goto(p, "atc_save",
                        [NoArg EXCEPT !.line = l, !.user = u,
                                      !.product = product,
                                      !.seen = cart[l].quantity,
                                      !.quantity = cart[l].quantity + quantity])
    /\ UNCHANGED <<orders, history, payments, nTrans, added, stock, cart, items>>
    /\ UNCHANGED <<price, events, cache>>
    /\ UNCHANGED <<users, tokens, now, used, loggedOut, reviews>>

\* The buyer's request.
AddToCart(p, product, quantity) == AddToCartAs(p, Buyer, product, quantity)

\* The adds of the buyer that count after one more of quantity q for the
\* product by user u.
AddedAfterAdd(u, product, q) ==
    IF u = Buyer THEN [added EXCEPT ![product] = Append(@, q)] ELSE added

\* ATC_Save that stores the quantity of the request instead of the raised
\* quantity.
ATC_SaveOverwrite(p) ==
    /\ pc[p] = "atc_save"
    /\ cart' = [cart EXCEPT ![arg[p].line] =
                   [state |-> "live", user |-> arg[p].user,
                    product |-> arg[p].product,
                    quantity |-> arg[p].quantity - arg[p].seen]]
    /\ added' = AddedAfterAdd(arg[p].user, arg[p].product,
                              arg[p].quantity - arg[p].seen)
    /\ Finish(p, "ok")
    /\ UNCHANGED <<orders, history, payments, nTrans, stock, items>>
    /\ UNCHANGED <<price, events, cache>>
    /\ UNCHANGED <<users, tokens, now, used, loggedOut, reviews>>

\* r.db.Save(&existingCart): writes the row that was read, with the raised
\* quantity (an UPDATE of all fields; a row deleted meanwhile is inserted
\* again).
ATC_Save(p) ==
    /\ pc[p] = "atc_save"
    /\ cart' = [cart EXCEPT ![arg[p].line] =
                   [state |-> "live", user |-> arg[p].user,
                    product |-> arg[p].product,
                    quantity |-> arg[p].quantity]]
    /\ added' = AddedAfterAdd(arg[p].user, arg[p].product,
                              arg[p].quantity - arg[p].seen)
    /\ Finish(p, "ok")
    /\ UNCHANGED <<orders, history, payments, nTrans, stock, items>>
    /\ UNCHANGED <<price, events, cache>>
    /\ UNCHANGED <<users, tokens, now, used, loggedOut, reviews>>

\* r.db.Create(cart): a new line.
ATC_Create(p) ==
    /\ pc[p] = "atc_create"
    /\ \E l \in Lines :
          /\ cart[l].state = "none"
          /\ \A m \in Lines : m < l => cart[m].state # "none"
          /\ cart' = [cart EXCEPT ![l] =
                         [state |-> "live", user |-> arg[p].user,
                          product |-> arg[p].product,
                          quantity |-> arg[p].quantity]]
    /\ added' = AddedAfterAdd(arg[p].user, arg[p].product, arg[p].quantity)
    /\ Finish(p, "ok")
    /\ UNCHANGED <<orders, history, payments, nTrans, stock, items>>
    /\ UNCHANGED <<price, events, cache>>
    /\ UNCHANGED <<users, tokens, now, used, loggedOut, reviews>>

\* ------------------------------------------------------------------ CartRepository.RemoveFromCart
\* DELETE FROM carts WHERE id = ? AND user_id = ?: no row is no error.
DeleteLineOf(rows, l, u) ==
    [rows EXCEPT ![l] = IF @.state = "live" /\ @.user = u
                        THEN [NoLine EXCEPT !.state = "deleted"]
                        ELSE @]

\* The delete for the buyer.
DeleteLine(rows, l) == DeleteLineOf(rows, l, Buyer)

\* The adds that count for the lines left after line l is removed.
AddedAfterDelete(l) ==
    IF cart[l].state = "live" /\ cart[l].user = Buyer
    THEN [added EXCEPT ![cart[l].product] = <<>>]
    ELSE added

\* A request removes line l of the user's cart: one statement.
RemoveFromCart(p, l) ==
    /\ Free(p)
    /\ cart' = DeleteLine(cart, l)
    /\ added' = AddedAfterDelete(l)
    /\ Finish(p, "ok")
    /\ UNCHANGED <<orders, history, payments, nTrans, stock, items>>
    /\ UNCHANGED <<price, events, cache>>
    /\ UNCHANGED <<users, tokens, now, used, loggedOut, reviews>>

\* A request of user u removes line l: one statement, which deletes the
\* line when it is a line of u.
RemoveLine(p, l, u) ==
    /\ Free(p)
    /\ cart' = DeleteLineOf(cart, l, u)
    /\ added' = IF cart[l].user = u THEN AddedAfterDelete(l) ELSE added
    /\ Finish(p, "ok")
    /\ UNCHANGED <<orders, history, payments, nTrans, stock, items>>
    /\ UNCHANGED <<price, events, cache>>
    /\ UNCHANGED <<users, tokens, now, used, loggedOut, reviews>>

\* ------------------------------------------------------------------ CartRepository.ClearCart
\* DeleteLinesOf with LIMIT 1: the first line of the user is deleted.
DeleteLinesOfFirst(rows, u) ==
    LET mine == {l \in Lines : rows[l].state = "live" /\ rows[l].user = u}
    IN IF mine = {} THEN rows
       ELSE DeleteLineOf(rows, CHOOSE l \in mine : \A m \in mine : l <= m, u)

\* DELETE FROM carts WHERE user_id = ?: no row is no error.
DeleteLinesOf(rows, u) ==
    [l \in Lines |->
        IF rows[l].state = "live" /\ rows[l].user = u
        THEN [NoLine EXCEPT !.state = "deleted"]
        ELSE rows[l]]

\* A request of user u empties the cart of u: one statement.
ClearCart(p, u) ==
    /\ Free(p)
    /\ cart' = DeleteLinesOf(cart, u)
    /\ added' = IF u = Buyer THEN [i \in Products |-> <<>>] ELSE added
    /\ Finish(p, "ok")
    /\ UNCHANGED <<orders, history, payments, nTrans, stock, items>>
    /\ UNCHANGED <<price, events, cache>>
    /\ UNCHANGED <<users, tokens, now, used, loggedOut, reviews>>

\* ------------------------------------------------------------------ UpdateLine (service)
\* GetCartItemByID that answers with another line when the id matches
\* none.
GetCartItemByIDAny(l) ==
    IF cart[l].state = "live" THEN cart[l]
    ELSE IF \E m \in Lines : cart[m].state = "live"
    THEN cart[CHOOSE m \in Lines : cart[m].state = "live"]
    ELSE NoLine

\* CartRepository.GetCartItemByID: the line with the id, whoever owns it,
\* or nil (here the empty slot) when there is none.
GetCartItemByID(l) == IF cart[l].state = "live" THEN cart[l] ELSE NoLine

\* The positive quantities and zero, which stands for the quantities that
\* are not positive.
LineQuantities == 0..MaxQty

\* The request of user u to set the quantity of line l: the service reads
\* the line and answers NotFoundError when there is none or it is a line
\* of another user; else it calls CartRepository.UpdateCartItem.
UpdateLine(p, l, u, quantity) ==
    /\ Free(p)
    /\ LET line == GetCartItemByID(l)
       IN IF line.state # "live" \/ line.user # u
          THEN Finish(p, "NotFoundError")
          ELSE Goto(p, "ul_update",
                    [NoArg EXCEPT !.line = l, !.user = u,
                                  !.quantity = quantity])
    /\ UNCHANGED <<orders, history, payments, nTrans, added, stock, cart, items>>
    /\ UNCHANGED <<price, events, cache>>
    /\ UNCHANGED <<users, tokens, now, used, loggedOut, reviews>>

\* CartRepository.UpdateCartItem: UPDATE carts SET quantity = ? WHERE id = ?
\* AND user_id = ?; no row is no error, and any quantity is written.
UpdateCartItem(rows, l, u, quantity) ==
    [rows EXCEPT ![l] = IF @.state = "live" /\ @.user = u
                        THEN [@ EXCEPT !.quantity = quantity]
                        ELSE @]

\* The repository call of UpdateLine.
UL_Update(p) ==
    /\ pc[p] = "ul_update"
    /\ LET l == arg[p].line
           u == arg[p].user
       IN /\ cart' = UpdateCartItem(cart, l, u, arg[p].quantity)
          /\ added' = IF cart[l].state = "live" /\ cart[l].user = u /\ u = Buyer
                       THEN [added EXCEPT ![cart[l].product] =
                                <<arg[p].quantity>>]
                       ELSE added
    /\ Finish(p, "ok")
    /\ UNCHANGED <<orders, history, payments, nTrans, stock, items>>
    /\ UNCHANGED <<price, events, cache>>
    /\ UNCHANGED <<users, tokens, now, used, loggedOut, reviews>>

\* ------------------------------------------------------------------ ProductService.UpdateProduct
\* Price and stock fields of an update request: a price that is not
\* positive and a stock below zero leave the column as it is; the zero
\* value of an omitted stock field is a stock.
PriceRequests == 0..MaxPrice
StockRequests == {-1, 0}

\* s.redis.Set(ctx, "product:<id>", product, time.Hour): the key holds the
\* product struct of the caller.
cacheProduct(entries, product, productPrice, productStock) ==
    [entries EXCEPT ![product] =
        [present |-> TRUE, price |-> productPrice, stock |-> productStock]]

\* GetByID, the request's fields copied over the product,
\* ProductRepository.Update (r.db.Save(product)) and cacheProduct, taken as
\* one step: the stock written back is the one the request read.
UpdateProduct(product, reqPrice, reqStock) ==
    /\ price' = [price EXCEPT ![product] =
                    IF reqPrice > 0 THEN reqPrice ELSE @]
    /\ stock' = [stock EXCEPT ![product] =
                    IF reqStock >= 0 THEN reqStock ELSE @]
    /\ cache' = cacheProduct(cache, product, price'[product], stock'[product])
    /\ UNCHANGED <<orders, history, payments, pc, arg, res, nTrans, cart,
                   items, added, events>>
    /\ UNCHANGED <<users, tokens, now, used, loggedOut, reviews>>

\* ------------------------------------------------------------------ ProductService.GetProductByID
\* getCachedProduct answers nil for every key, so the product is read from
\* the database (GetByID) and cached.
GetProductByID(product) ==
    /\ cache' = cacheProduct(cache, product, price[product], stock[product])
    /\ UNCHANGED <<orders, history, payments, pc, arg, res, nTrans, cart,
                   items, added, events, price, stock>>
    /\ UNCHANGED <<users, tokens, now, used, loggedOut, reviews>>

\* ------------------------------------------------------------------ ProductService.UpdateStock
\* The stock of an UpdateStockRequest (binding min=0).
StockLevels == 0..MaxStock

\* GetByID: the product is read and kept for the cache.
UpdateStock(p, product, reqStock) ==
    /\ Free(p)
    /\ Goto(p, "us_write",
            [NoArg EXCEPT !.product = product, !.quantity = reqStock,
                          !.seen = price[product]])
    /\ UNCHANGED <<orders, history, payments, nTrans, added, stock, cart, items>>
    /\ UNCHANGED <<price, events, cache>>
    /\ UNCHANGED <<users, tokens, now, used, loggedOut, reviews>>

\* ProductRepository.UpdateStock(id, req.Stock).
US_Write(p) ==
    /\ pc[p] = "us_write"
    /\ stock' = [stock EXCEPT ![arg[p].product] = arg[p].quantity]
    /\ Goto(p, "us_cache", arg[p])
    /\ UNCHANGED <<orders, history, payments, nTrans, added, cart, items>>
    /\ UNCHANGED <<price, events, cache>>
    /\ UNCHANGED <<users, tokens, now, used, loggedOut, reviews>>

\* product.Stock = req.Stock; s.cacheProduct(product): the product that was
\* read, with the stock of the request, is put under the key.
US_Cache(p) ==
    /\ pc[p] = "us_cache"
    /\ cache' = cacheProduct(cache, arg[p].product, arg[p].seen, arg[p].quantity)
    /\ Finish(p, "ok")
    /\ UNCHANGED <<orders, history, payments, nTrans, added, stock, cart, items>>
    /\ UNCHANGED <<price, events>>
    /\ UNCHANGED <<users, tokens, now, used, loggedOut, reviews>>

\* ------------------------------------------------------------------ Checkout (service)
\* The price of a line when the add-to-cart price of its product is used:
\* the price the product had before any price change.
ProductPriceCached(product) == InitialPrice

\* Preload("Product"): the product row of a line as the query finds it, of
\* which the checkout uses the price.
ProductPrice(product) == price[product]

\* CartRepository.GetCart: the live lines of the buyer with their products,
\* in id order.
RECURSIVE GetCart(_)
GetCart(n) ==
    IF n = 0 THEN <<>>
    ELSE IF cart[n].state = "live" /\ cart[n].user = Buyer
         THEN Append(GetCart(n - 1),
                     [line |-> n, product |-> cart[n].product,
                      quantity |-> cart[n].quantity,
                      price |-> ProductPrice(cart[n].product)])
         ELSE GetCart(n - 1)

\* subtotal = sum over the lines of unit price x quantity.
RECURSIVE LinesSubtotal(_)
LinesSubtotal(lines) ==
    IF lines = <<>> THEN 0
    ELSE Head(lines).price * Head(lines).quantity + LinesSubtotal(Tail(lines))

\* The shipping cost of a checkout: an external rate, fixed here.
CheckoutShipping == 2

\* Positions of a checkout between its repository calls.
CheckoutSteps ==
    {"co_stock", "co_dec", "co_order", "co_items", "co_payment", "co_cart"}

\* Steps 1-2: load the cart lines, re-fetch every product and compare the
\* quantity with the current stock.
Checkout(p) ==
    /\ Free(p)
    /\ RoomForRow
    /\ OrderCount + Cardinality({q \in Procs : pc[q] \in CheckoutSteps}) < MaxOrders
    /\ LET lines == GetCart(MaxLines)
       IN IF lines = <<>>
          THEN Finish(p, "EmptyCartError")
          ELSE IF \E i \in 1..Len(lines) :
                      lines[i].quantity > stock[lines[i].product]
          THEN Finish(p, "InsufficientStockError")
          ELSE Goto(p, "co_stock", [NoArg EXCEPT !.lines = lines, !.n = 1])
    /\ UNCHANGED <<orders, history, payments, nTrans, added, stock, cart, items>>
    /\ UNCHANGED <<price, events, cache>>
    /\ UNCHANGED <<users, tokens, now, used, loggedOut, reviews>>

\* Step 4, stock of line n: the product is read (ProductRepository.GetByID)
\* and a decrement that would go negative fails the checkout.
CO_ReadStock(p) ==
    /\ pc[p] = "co_stock"
    /\ LET line == arg[p].lines[arg[p].n]
       IN IF stock[line.product] < line.quantity
          THEN Finish(p, "InsufficientStockError")
          ELSE Goto(p, "co_dec", [arg[p] EXCEPT !.seen = stock[line.product]])
    /\ UNCHANGED <<orders, history, payments, nTrans, added, stock, cart, items>>
    /\ UNCHANGED <<price, events, cache>>
    /\ UNCHANGED <<users, tokens, now, used, loggedOut, reviews>>

\* ProductRepository.UpdateStock(productID, newStock): UPDATE products SET
\* stock = newStock, the new value computed from the stock that was read.
CO_UpdateStock(p) ==
    /\ pc[p] = "co_dec"
    /\ LET line == arg[p].lines[arg[p].n]
       IN stock' = [stock EXCEPT ![line.product] = arg[p].seen - line.quantity]
    /\ IF arg[p].n = Len(arg[p].lines)
       THEN Goto(p, "co_order", [arg[p] EXCEPT !.n = 1, !.seen = 0])
       ELSE Goto(p, "co_stock", [arg[p] EXCEPT !.n = @ + 1, !.seen = 0])
    /\ UNCHANGED <<orders, history, payments, nTrans, added, cart, items>>
    /\ UNCHANGED <<price, events, cache>>
    /\ UNCHANGED <<users, tokens, now, used, loggedOut, reviews>>

\* OrderRepository.CreateOrder: the order and its first history row, in
\* one transaction.
CO_CreateOrder(p) ==
    /\ pc[p] = "co_order"
    /\ \E o \in Orders :
          /\ ~orders[o].present
          /\ \A n \in Orders : n < o => orders[n].present
          /\ LET subtotal == LinesSubtotal(arg[p].lines)
                 order == [present |-> TRUE, status |-> StatusDefault(""),
                           totalAmount |-> subtotal + CheckoutShipping,
                           subtotal |-> subtotal,
                           shippingCost |-> CheckoutShipping,
                           paymentID |-> NilID, paymentStatus |-> "pending"]
             IN /\ orders' = [orders EXCEPT ![o] = order]
                /\ history' = [history EXCEPT ![o] =
                                  InsertHistory(@, CreationHistory(order))]
          /\ Goto(p, "co_items", [arg[p] EXCEPT !.o = o])
    /\ UNCHANGED <<payments, nTrans, added, stock, cart, items>>
    /\ UNCHANGED <<price, events, cache>>
    /\ UNCHANGED <<users, tokens, now, used, loggedOut, reviews>>

\* OrderRepository.CreateOrderItem: r.db.Create(item), one call per line.
CO_CreateOrderItem(p) ==
    /\ pc[p] = "co_items"
    /\ LET line == arg[p].lines[arg[p].n]
       IN items' = [items EXCEPT ![arg[p].o] =
                       Append(@, [product |-> line.product,
                                  quantity |-> line.quantity,
                                  price |-> line.price,
                                  subtotal |-> line.price * line.quantity])]
    /\ IF arg[p].n = Len(arg[p].lines)
       THEN Goto(p, "co_payment", [arg[p] EXCEPT !.n = 1])
       ELSE Goto(p, "co_items", [arg[p] EXCEPT !.n = @ + 1])
    /\ UNCHANGED <<orders, history, payments, nTrans, added, stock, cart>>
    /\ UNCHANGED <<price, events, cache>>
    /\ UNCHANGED <<users, tokens, now, used, loggedOut, reviews>>

\* PaymentRepository.CreatePayment: the payment of the order.
CO_CreatePayment(p) ==
    /\ pc[p] = "co_payment"
    /\ \E k \in PayIDs :
          /\ ~payments[k].present
          /\ \A n \in PayIDs : n < k => payments[n].present
          /\ payments' = [payments EXCEPT ![k] =
                [present |-> TRUE, orderID |-> arg[p].o,
                 amount |-> PaymentAmount(orders[arg[p].o]),
                 status |-> StatusDefault(""), paidAt |-> FALSE]]
          /\ Goto(p, "co_cart", [arg[p] EXCEPT !.k = k])
    /\ UNCHANGED <<orders, history, nTrans, added, stock, cart, items>>
    /\ UNCHANGED <<price, events, cache>>
    /\ UNCHANGED <<users, tokens, now, used, loggedOut, reviews>>

\* RabbitMQ.Publish of the order-created event of order o: the broker has
\* the message.
Publish(o) == events \cup {o}

\* The event published with every cart line that is removed, the first
\* included.
EventsAfterRemoveEager(p) == {Publish(arg[p].o)}

\* The events after a cart line of the checkout was removed: once the last
\* line is gone the checkout is complete and the event is published,
\* fire-and-forget (a Publish that returns an error leaves no message).
EventsAfterRemove(p) ==
    IF arg[p].n = Len(arg[p].lines)
    THEN {events, Publish(arg[p].o)}
    ELSE {events}

\* CartRepository.RemoveFromCart, one call per consumed line: DELETE FROM
\* carts WHERE id = ? AND user_id = ? (no row is no error).  After the last
\* one the order-created event goes out and the checkout returns.
CO_RemoveFromCart(p) ==
    /\ pc[p] = "co_cart"
    /\ LET l == arg[p].lines[arg[p].n].line
       IN /\ cart' = DeleteLine(cart, l)
          /\ added' = AddedAfterDelete(l)
    /\ events' \in EventsAfterRemove(p)
    /\ IF arg[p].n = Len(arg[p].lines)
       THEN Finish(p, "ok")
       ELSE Goto(p, "co_cart", [arg[p] EXCEPT !.n = @ + 1])
    /\ UNCHANGED <<orders, history, payments, nTrans, stock, items>>
    /\ UNCHANGED <<price, cache>>
    /\ UNCHANGED <<users, tokens, now, used, loggedOut, reviews>>

\* The process dies, or a repository call returns an error, between two
\* repository calls of the checkout: what was committed stays.
CO_Abort(p) ==
    /\ pc[p] \in CheckoutSteps
    /\ Finish(p, "aborted")
    /\ UNCHANGED <<orders, history, payments, nTrans, added, stock, cart, items>>
    /\ UNCHANGED <<price, events, cache>>
    /\ UNCHANGED <<users, tokens, now, used, loggedOut, reviews>>

\* ------------------------------------------------------------------ CancelOrder (service)
\* The service reads the order with its items, validates the edge to
\* cancelled and calls OrderRepository.UpdateOrderStatus; the items are
\* kept for the restock.
CancelOrder(p, o) ==
    /\ Free(p)
    /\ RoomForRow
    /\ IF ~orders[o].present
       THEN Finish(p, "NotFoundError")
       ELSE IF <<orders[o].status, "cancelled">> \notin AllowedTransitions
       THEN Finish(p, "InvalidTransitionError")
       ELSE Goto(p, "uos_begin",
                 [NoArg EXCEPT !.o = o, !.to = "cancelled", !.lines = items[o]])
    /\ UNCHANGED <<orders, history, payments, nTrans, added, stock, cart, items>>
    /\ UNCHANGED <<price, events, cache>>
    /\ UNCHANGED <<users, tokens, now, used, loggedOut, reviews>>

\* Restock of item n: the product is read (ProductRepository.GetByID).
CX_ReadStock(p) ==
    /\ pc[p] = "cx_stock"
    /\ Goto(p, "cx_inc",
            [arg[p] EXCEPT !.seen = stock[arg[p].lines[arg[p].n].product]])
    /\ UNCHANGED <<orders, history, payments, nTrans, added, stock, cart, items>>
    /\ UNCHANGED <<price, events, cache>>
    /\ UNCHANGED <<users, tokens, now, used, loggedOut, reviews>>

\* ProductRepository.UpdateStock(productID, newStock) with the quantity of
\* the item added to the stock that was read.
CX_UpdateStock(p) ==
    /\ pc[p] = "cx_inc"
    /\ LET line == arg[p].lines[arg[p].n]
       IN stock' = [stock EXCEPT ![line.product] = arg[p].seen + line.quantity]
    /\ IF arg[p].n = Len(arg[p].lines)
       THEN Finish(p, "ok")
       ELSE Goto(p, "cx_stock", [arg[p] EXCEPT !.n = @ + 1, !.seen = 0])
    /\ UNCHANGED <<orders, history, payments, nTrans, added, cart, items>>
    /\ UNCHANGED <<price, events, cache>>
    /\ UNCHANGED <<users, tokens, now, used, loggedOut, reviews>>

\* The process dies, or a call returns an error, during the restock: what
\* was committed stays.
CX_Abort(p) ==
    /\ pc[p] \in {"cx_stock", "cx_inc"}
    /\ Finish(p, "aborted")
    /\ UNCHANGED <<orders, history, payments, nTrans, added, stock, cart, items>>
    /\ UNCHANGED <<price, events, cache>>
    /\ UNCHANGED <<users, tokens, now, used, loggedOut, reviews>>

\* ------------------------------------------------------------------ OrderRepository.UpdateOrder
\* SaveOrder with a struct that was filled from the request instead of
\* loaded: the amounts it does not carry are written as zero.
SaveOrderPartial(row, order) ==
    [order EXCEPT !.subtotal = 0, !.shippingCost = 0]

\* r.db.Save(order): UPDATE of every column with the value of the struct.
SaveOrder(row, order) == order

\* The service loads the order (GetOrderByID) to change a field that is
\* not an amount, a status or a payment reference (address, notes, dates).
UpdateOrder(p, o) ==
    /\ Free(p)
    /\ IF ~orders[o].present
       THEN Finish(p, "NotFoundError")
       ELSE Goto(p, "uo_save", [NoArg EXCEPT !.o = o, !.order = orders[o]])
    /\ UNCHANGED <<orders, history, payments, nTrans, added, stock, cart, items>>
    /\ UNCHANGED <<price, events, cache>>
    /\ UNCHANGED <<users, tokens, now, used, loggedOut, reviews>>

\* OrderRepository.UpdateOrder(order): an UPDATE of the order row, which
\* waits for a transaction that holds the row.
UO_Save(p) ==
    /\ pc[p] = "uo_save"
    /\ \A q \in Procs : ~HoldsRow(q, arg[p].o)
    /\ orders' = [orders EXCEPT ![arg[p].o] = SaveOrder(@, arg[p].order)]
    /\ Finish(p, "updated")
    /\ UNCHANGED <<history, payments, nTrans, added, stock, cart, items>>
    /\ UNCHANGED <<price, events, cache>>
    /\ UNCHANGED <<users, tokens, now, used, loggedOut, reviews>>

\* ------------------------------------------------------------------ POST /payments
\* The payment creation request: the service looks for a payment of the
\* order (PaymentRepository.GetPaymentByOrderID, which answers nil when there
\* is none) and creates one only when it found none.
RequestPayment(p, o) ==
    /\ Free(p)
    /\ orders[o].present
    /\ IF HasPayment(o)
       THEN Finish(p, "PaymentExistsError")
       ELSE /\ RoomForRow
            /\ Goto(p, "cp_insert", [NoArg EXCEPT !.o = o])
    /\ UNCHANGED <<orders, history, payments, nTrans, added, stock, cart, items>>
    /\ UNCHANGED <<price, events, cache>>
    /\ UNCHANGED <<users, tokens, now, used, loggedOut, reviews>>

\* PaymentRepository.CreatePayment: INSERT INTO payments, which no unique
\* index on order_id can refuse.
CP_Insert(p, k) ==
    /\ pc[p] = "cp_insert"
    /\ ~payments[k].present
    /\ \A n \in PayIDs : n < k => payments[n].present
    /\ payments' = [payments EXCEPT ![k] =
            [present |-> TRUE, orderID |-> arg[p].o,
             amount |-> PaymentAmount(orders[arg[p].o]),
             status |-> StatusDefault(""), paidAt |-> FALSE]]
    /\ Finish(p, "created")
    /\ UNCHANGED <<orders, history, nTrans, added, stock, cart, items>>
    /\ UNCHANGED <<price, events, cache>>
    /\ UNCHANGED <<users, tokens, now, used, loggedOut, reviews>>

\* ------------------------------------------------------------ UserRepository
\* GetByEmail: WHERE email = ? over the rows that are not soft-deleted;
\* 0 when no row matches.
GetByEmail(email) ==
    LET found == {a \in Accounts : /\ users[a].present
                                   /\ ~users[a].deleted
                                   /\ users[a].email = email}
    IN IF found = {} THEN 0 ELSE CHOOSE a \in found : \A b \in found : a <= b

\* GetByID: WHERE id = ? over the rows that are not soft-deleted.
UserFound(account) == users[account].present /\ ~users[account].deleted

\* A users table without the unique index on email.
EmailIndexAbsent(rows, email) == TRUE

\* The unique index on users.email (models.User, migrated at start-up): an
\* insert passes when no row, soft-deleted or not, holds the email.
EmailIndexAdmits(rows, email) ==
    \A a \in Accounts : rows[a].present => rows[a].email # email

\* uuid.New(): an id no row has.
NewAccount == CHOOSE a \in Accounts :
                  /\ ~users[a].present
                  /\ \A b \in Accounts : b < a => users[b].present

RoomForAccount == \E a \in Accounts : ~users[a].present

\* storeRefreshToken: SET refresh_token:<token>.
storeRefreshToken(stored, token) == stored \cup {token}

\* ----------------------------------------------------- UserService.Register
Register(p, email) ==
    /\ Free(p)
    /\ IF GetByEmail(email) # 0
         THEN Finish(p, "user already exists")
         ELSE Goto(p, "rg_create", [NoArg EXCEPT !.email = email])
    /\ UNCHANGED <<orders, history, payments, nTrans, stock, cart, items,
                   added, price, events, cache>>
    /\ UNCHANGED <<users, tokens, now, used, loggedOut, reviews>>

RG_Create(p) ==
    /\ pc[p] = "rg_create"
    /\ RoomForAccount
    /\ IF EmailIndexAdmits(users, arg[p].email)
         THEN /\ users' = [users EXCEPT ![NewAccount] =
                     [present |-> TRUE, email |-> arg[p].email,
                      active |-> TRUE, deleted |-> FALSE]]
              /\ Goto(p, "rg_store", [arg[p] EXCEPT !.account = NewAccount])
         ELSE /\ Finish(p, "duplicate key")
              /\ UNCHANGED users
    /\ UNCHANGED <<orders, history, payments, nTrans, stock, cart, items,
                   added, price, events, cache>>
    /\ UNCHANGED <<tokens, now, used, loggedOut, reviews>>

RG_Store(p) ==
    /\ pc[p] = "rg_store"
    /\ LET fresh == RefreshTokenOf(arg[p].account, now)
       IN /\ tokens' = storeRefreshToken(tokens, fresh)
          /\ loggedOut' = loggedOut \ {fresh}
          /\ used' = used \ {fresh}
    /\ Finish(p, "ok")
    /\ UNCHANGED <<orders, history, payments, nTrans, stock, cart, items,
                   added, price, events, cache>>
    /\ UNCHANGED <<users, now, reviews>>

\* ------------------------------------------------ UserService.DeleteAccount
DeleteAccount(account) ==
    /\ users[account].present
    /\ users' = [users EXCEPT ![account].deleted = TRUE]
    /\ UNCHANGED <<orders, history, payments, pc, arg, res, nTrans, stock,
                   cart, items, added, price, events, cache>>
    /\ UNCHANGED <<tokens, now, used, loggedOut, reviews>>

\* -------------------------------------------------------- UserService.Login
Login(p, email, passwordOK) ==
    /\ Free(p)
    /\ LET user == GetByEmail(email)
       IN IF user = 0 THEN Finish(p, "user not found")
          ELSE IF ~passwordOK THEN Finish(p, "invalid credentials")
          ELSE IF ~users[user].active
                 THEN Finish(p, "user account is deactivated")
          ELSE Goto(p, "lg_store", [NoArg EXCEPT !.account = user])
    /\ UNCHANGED <<orders, history, payments, nTrans, stock, cart, items,
                   added, price, events, cache>>
    /\ UNCHANGED <<users, tokens, now, used, loggedOut, reviews>>

LG_Store(p) ==
    /\ pc[p] = "lg_store"
    /\ LET fresh == RefreshTokenOf(arg[p].account, now)
       IN /\ tokens' = storeRefreshToken(tokens, fresh)
          /\ loggedOut' = loggedOut \ {fresh}
          /\ used' = used \ {fresh}
    /\ Finish(p, "ok")
    /\ UNCHANGED <<orders, history, payments, nTrans, stock, cart, items,
                   added, price, events, cache>>
    /\ UNCHANGED <<users, now, reviews>>

\* ------------------------------------------------------- UserService.Logout
Logout(token) ==
    /\ tokens' = tokens \ {token}
    /\ loggedOut' = loggedOut \cup {token}
    /\ UNCHANGED <<orders, history, payments, pc, arg, res, nTrans, stock,
                   cart, items, added, price, events, cache>>
    /\ UNCHANGED <<users, now, used, reviews>>

\* ------------------------------------------------- UserService.RefreshToken
\* The token parses and its signature and expiry are valid: every value of
\* TokenValues was signed by generateTokens less than seven days ago.
RefreshToken(p, token) ==
    /\ Free(p)
    /\ IF token \notin tokens
         THEN Finish(p, "refresh token not found")
         ELSE Goto(p, "rt_del", [NoArg EXCEPT !.token = token,
                                               !.account = token.user])
    /\ UNCHANGED <<orders, history, payments, nTrans, stock, cart, items,
                   added, price, events, cache>>
    /\ UNCHANGED <<users, tokens, now, used, loggedOut, reviews>>

RT_Del(p) ==
    /\ pc[p] = "rt_del"
    /\ IF ~UserFound(arg[p].account)
         THEN /\ Finish(p, "user not found")
              /\ UNCHANGED tokens
         ELSE /\ tokens' = tokens \ {arg[p].token}
              /\ Goto(p, "rt_store",
                      [arg[p] EXCEPT !.fresh = RefreshTokenOf(arg[p].account, now)])
    /\ UNCHANGED <<orders, history, payments, nTrans, stock, cart, items,
                   added, price, events, cache>>
    /\ UNCHANGED <<users, now, used, loggedOut, reviews>>

RT_Store(p) ==
    /\ pc[p] = "rt_store"
    /\ tokens' = storeRefreshToken(tokens, arg[p].fresh)
    /\ used' = used \cup {arg[p].token}
    /\ loggedOut' = loggedOut \ {arg[p].fresh}
    /\ Finish(p, "ok")
    /\ UNCHANGED <<orders, history, payments, nTrans, stock, cart, items,
                   added, price, events, cache>>
    /\ UNCHANGED <<users, now, reviews>>

\* --------------------------------------------- UserService.UpdateUserStatus
UpdateUserStatus(account, isActive) ==
    /\ UserFound(account)
    /\ users[account].active # isActive
    /\ users' = [users EXCEPT ![account].active = isActive]
    /\ UNCHANGED <<orders, history, payments, pc, arg, res, nTrans, stock,
                   cart, items, added, price, events, cache>>
    /\ UNCHANGED <<tokens, now, used, loggedOut, reviews>>

\* The clock moves on by a second.
Tick ==
    /\ now < MaxTime
    /\ now' = now + 1
    /\ UNCHANGED <<orders, history, payments, pc, arg, res, nTrans, stock,
                   cart, items, added, price, events, cache>>
    /\ UNCHANGED <<users, tokens, used, loggedOut, reviews>>

\* --------------------------------------- ProductReviewService.CreateReview
HasUserReviewed(user, product) == reviews[<<user, product>>] > 0

CreateReview(p, user, product) ==
    /\ Free(p)
    /\ IF HasUserReviewed(user, product)
         THEN Finish(p, "user already reviewed this product")
         ELSE Goto(p, "rv_create", [NoArg EXCEPT !.user = user,
                                                  !.product = product])
    /\ UNCHANGED <<orders, history, payments, nTrans, stock, cart, items,
                   added, price, events, cache>>
    /\ UNCHANGED <<users, tokens, now, used, loggedOut, reviews>>

RV_Create(p) ==
    /\ pc[p] = "rv_create"
    /\ reviews' = [reviews EXCEPT ![<<arg[p].user, arg[p].product>>] = @ + 1]
    /\ Finish(p, "created")
    /\ UNCHANGED <<orders, history, payments, nTrans, stock, cart, items,
                   added, price, events, cache>>
    /\ UNCHANGED <<users, tokens, now, used, loggedOut>>

\* ------------------------------------------------------------------ Spec
\* The order state machine: order creation and concurrent status
\* transitions.
Next ==
    \/ \E p \in Procs, o \in Orders, s \in {"", "pending"} :
            CreateOrder(p, o, s, TotalOf(o))
    \/ \E p \in Procs, o \in Orders : CreateOrderFails(p, o)
    \/ \E p \in Procs, o \in Orders, to \in Statuses : TransitionOrder(p, o, to)
    \/ \E p \in Procs : UOS_Select(p)
    \/ \E p \in Procs : UOS_Update(p)
    \/ \E p \in Procs : UOS_Commit(p)
    \/ \E p \in Procs : UOS_Rollback(p)

Spec == Init /\ [][Next]_vars

\* The payment reconciler: orders, their payments and concurrent gateway
\* callbacks, which drive the order through UpdateOrderStatus.
NextPay ==
    \/ \E p \in Procs, o \in Orders, s \in {"", "pending"} :
            CreateOrder(p, o, s, TotalOf(o))
    \/ \E p \in Procs, k \in PayIDs, o \in Orders : CreatePayment(p, k, o)
    \/ \E p \in Procs, k \in PayIDs, s \in CallbackStatuses, a \in Amounts :
            ApplyCallback(p, k, s, a)
    \/ \E p \in Procs : CB_UpdatePayment(p)
    \/ \E p \in Procs : CB_UpdateOrderPayment(p)
    \/ \E p \in Procs : CB_Transition(p)
    \/ \E p \in Procs : CB_Abort(p)
    \/ \E p \in Procs : UOS_Select(p)
    \/ \E p \in Procs : UOS_Update(p)
    \/ \E p \in Procs : UOS_Commit(p)
    \/ \E p \in Procs : UOS_Rollback(p)

SpecPay == Init /\ [][NextPay]_vars

\* The checkout: a user's cart, the stock of the products and concurrent
\* checkouts of the cart.
NextCheckout ==
    \/ \E p \in Procs, i \in Products, q \in Quantities : AddToCart(p, i, q)
    \/ \E p \in Procs : ATC_Save(p)
    \/ \E p \in Procs : ATC_Create(p)
    \/ \E p \in Procs : Checkout(p)
    \/ \E p \in Procs : CO_ReadStock(p)
    \/ \E p \in Procs : CO_UpdateStock(p)
    \/ \E p \in Procs : CO_CreateOrder(p)
    \/ \E p \in Procs : CO_CreateOrderItem(p)
    \/ \E p \in Procs : CO_CreatePayment(p)
    \/ \E p \in Procs : CO_RemoveFromCart(p)
    \/ \E p \in Procs : CO_Abort(p)

SpecCheckout == Init /\ [][NextCheckout]_vars

\* One buyer whose requests come one after the other and who adds products
\* that are not in the cart yet; a checkout may die between two of its
\* calls.
NextCheckoutSeq ==
    \/ \E p \in Procs, i \in Products, q \in Quantities :
            AllIdle /\ LinesOf(i) = {} /\ AddToCart(p, i, q)
    \/ \E p \in Procs : ATC_Create(p)
    \/ \E p \in Procs : AllIdle /\ Checkout(p)
    \/ \E p \in Procs : CO_ReadStock(p)
    \/ \E p \in Procs : CO_UpdateStock(p)
    \/ \E p \in Procs : CO_CreateOrder(p)
    \/ \E p \in Procs : CO_CreateOrderItem(p)
    \/ \E p \in Procs : CO_CreatePayment(p)
    \/ \E p \in Procs : CO_RemoveFromCart(p)
    \/ \E p \in Procs : CO_Abort(p)

SpecCheckoutSeq == Init /\ [][NextCheckoutSeq]_vars

\* The same buyer up to the first order, while the prices of the products
\* in the cart are raised, at any moment of the checkout too.
NextPrice ==
    \/ \E p \in Procs, i \in Products, q \in Quantities :
            AllIdle /\ LinesOf(i) = {} /\ AddToCart(p, i, q)
    \/ \E p \in Procs : ATC_Create(p)
    \/ \E p \in Procs : AllIdle /\ OrderCount = 0 /\ Checkout(p)
    \/ \E p \in Procs : CO_ReadStock(p)
    \/ \E p \in Procs : CO_UpdateStock(p)
    \/ \E p \in Procs : CO_CreateOrder(p)
    \/ \E p \in Procs : CO_CreateOrderItem(p)
    \/ \E p \in Procs : CO_CreatePayment(p)
    \/ \E p \in Procs : CO_RemoveFromCart(p)
    \/ \E i \in Products, v \in PriceRequests, r \in StockRequests :
            /\ LinesOf(i) # {}
            /\ v > price[i]
            /\ r < 0
            /\ UpdateProduct(i, v, r)

SpecPrice == Init /\ [][NextPrice]_vars

\* The product service: reads, stock updates and product updates of the
\* sellers, any of them at the same time.
NextProduct ==
    \/ \E i \in Products : GetProductByID(i)
    \/ \E p \in Procs, i \in Products, r \in StockLevels : UpdateStock(p, i, r)
    \/ \E p \in Procs : US_Write(p)
    \/ \E p \in Procs : US_Cache(p)
    \/ \E i \in Products, v \in PriceRequests, r \in StockRequests :
            UpdateProduct(i, v, r)

SpecProduct == Init /\ [][NextProduct]_vars

\* Registration and account deletion.
NextRegister ==
    \/ \E p \in Procs, e \in Emails : Register(p, e)
    \/ \E p \in Procs : RG_Create(p)
    \/ \E p \in Procs : RG_Store(p)
    \/ \E a \in Accounts : DeleteAccount(a)

SpecRegister == Init /\ [][NextRegister]_vars

\* Sessions of the first registered account.
NextAuth ==
    \/ \E p \in Procs : AllIdle /\ GetByEmail(1) = 0 /\ Register(p, 1)
    \/ \E p \in Procs : RG_Create(p)
    \/ \E p \in Procs : RG_Store(p)
    \/ \E p \in Procs, ok \in BOOLEAN : Login(p, 1, ok)
    \/ \E p \in Procs : LG_Store(p)
    \/ \E t \in tokens : Logout(t)
    \/ \E p \in Procs, t \in TokenValues : RefreshToken(p, t)
    \/ \E p \in Procs : RT_Del(p)
    \/ \E p \in Procs : RT_Store(p)
    \/ \E a \in Accounts, b \in BOOLEAN : AllIdle /\ UpdateUserStatus(a, b)
    \/ Tick

SpecAuth == Init /\ [][NextAuth]_vars

\* Reviews.
NextReview ==
    \/ \E p \in Procs, u \in Users, i \in Products : CreateReview(p, u, i)
    \/ \E p \in Procs : RV_Create(p)

SpecReview == Init /\ [][NextReview]_vars

\* The operations on an order after its creation: status transitions,
\* payment callbacks and order updates.  The gateway delivers its callbacks
\* one at a time; transitions and updates overlap them and each other.
NextOrder ==
    \/ \E p \in Procs, o \in Orders, s \in {"", "pending"} :
            CreateOrder(p, o, s, TotalOf(o))
    \/ \E p \in Procs, k \in PayIDs, o \in Orders :
            AllIdle /\ CreatePayment(p, k, o)
    \/ \E p \in Procs, k \in PayIDs, s \in CallbackStatuses :
            AllIdle /\ ApplyCallback(p, k, s, payments[k].amount)
    \/ \E p \in Procs : CB_UpdatePayment(p)
    \/ \E p \in Procs : CB_UpdateOrderPayment(p)
    \/ \E p \in Procs : CB_Transition(p)
    \/ \E p \in Procs, o \in Orders, to \in Statuses : TransitionOrder(p, o, to)
    \/ \E p \in Procs : UOS_Select(p)
    \/ \E p \in Procs : UOS_Update(p)
    \/ \E p \in Procs : UOS_Commit(p)
    \/ \E p \in Procs, o \in Orders : UpdateOrder(p, o)
    \/ \E p \in Procs : UO_Save(p)

SpecOrder == Init /\ [][NextOrder]_vars

\* Checkouts and concurrent payment creation requests for the orders.
NextPayCreate ==
    \/ \E p \in Procs, i \in Products, q \in Quantities : AddToCart(p, i, q)
    \/ \E p \in Procs : ATC_Save(p)
    \/ \E p \in Procs : ATC_Create(p)
    \/ \E p \in Procs : Checkout(p)
    \/ \E p \in Procs : CO_ReadStock(p)
    \/ \E p \in Procs : CO_UpdateStock(p)
    \/ \E p \in Procs : CO_CreateOrder(p)
    \/ \E p \in Procs : CO_CreateOrderItem(p)
    \/ \E p \in Procs : CO_CreatePayment(p)
    \/ \E p \in Procs : CO_RemoveFromCart(p)
    \/ \E p \in Procs, o \in Orders : RequestPayment(p, o)
    \/ \E p \in Procs, k \in PayIDs : CP_Insert(p, k)

SpecPayCreate == Init /\ [][NextPayCreate]_vars

\* Checkouts and cancellations of the orders they created.
NextCancel ==
    \/ \E p \in Procs, i \in Products, q \in Quantities : AddToCart(p, i, q)
    \/ \E p \in Procs : ATC_Save(p)
    \/ \E p \in Procs : ATC_Create(p)
    \/ \E p \in Procs : Checkout(p)
    \/ \E p \in Procs : CO_ReadStock(p)
    \/ \E p \in Procs : CO_UpdateStock(p)
    \/ \E p \in Procs : CO_CreateOrder(p)
    \/ \E p \in Procs : CO_CreateOrderItem(p)
    \/ \E p \in Procs : CO_CreatePayment(p)
    \/ \E p \in Procs : CO_RemoveFromCart(p)
    \/ \E p \in Procs, o \in Orders : CancelOrder(p, o)
    \/ \E p \in Procs : UOS_Select(p)
    \/ \E p \in Procs : UOS_Update(p)
    \/ \E p \in Procs : UOS_Commit(p)
    \/ \E p \in Procs : CX_ReadStock(p)
    \/ \E p \in Procs : CX_UpdateStock(p)
    \/ \E p \in Procs : CX_Abort(p)

SpecCancel == Init /\ [][NextCancel]_vars

\* The cart store under concurrent AddToCart requests of one user.
NextCart ==
    \/ \E p \in Procs, i \in Products, q \in Quantities : AddToCart(p, i, q)
    \/ \E p \in Procs : ATC_Save(p)
    \/ \E p \in Procs : ATC_Create(p)

SpecCart == Init /\ [][NextCart]_vars

\* The cart store under the requests of several users, one request at a
\* time; a user adds a product that is not in their cart yet (merging adds are
\* followed in SpecCartSeq).
NextCartLine ==
    \/ \E p \in Procs, u \in Users, i \in Products, q \in LineQuantities :
            AllIdle /\ LinesOfUser(u, i) = {} /\ AddToCartAs(p, u, i, q)
    \/ \E p \in Procs : ATC_Create(p)
    \/ \E p \in Procs, l \in Lines, u \in Users, q \in LineQuantities :
            AllIdle /\ UpdateLine(p, l, u, q)
    \/ \E p \in Procs : UL_Update(p)
    \/ \E p \in Procs, l \in Lines, u \in Users :
            AllIdle /\ RemoveLine(p, l, u)
    \/ \E p \in Procs, u \in Users : AllIdle /\ ClearCart(p, u)

SpecCartLine == Init /\ [][NextCartLine]_vars

\* The cart store when the user's requests come one after the other.
NextCartSeq ==
    \/ \E p \in Procs, i \in Products, q \in LineQuantities :
            AllIdle /\ AddToCart(p, i, q)
    \/ \E p \in Procs : ATC_Save(p)
    \/ \E p \in Procs : ATC_Create(p)
    \/ \E p \in Procs, l \in Lines : AllIdle /\ RemoveFromCart(p, l)

SpecCartSeq == Init /\ [][NextCartSeq]_vars

C2_StatusIsLastHistory ==
    \A o \in Orders :
        orders[o].present =>
            /\ Len(history[o]) >= 1
            /\ orders[o].status = history[o][Len(history[o])].toStatus

\* C2 witness: an order that went through two successful transitions, one
\* of which recorded a fromStatus that is not the toStatus of the row
\* before it.
C2_Witness ==
    \E o \in Orders :
        /\ nTrans[o] >= 2
        /\ \E i \in 2..Len(history[o]) :
               history[o][i].fromStatus # history[o][i - 1].toStatus

\* C3: for every order the number of history rows is 1 plus the number of
\* successful transitions (creation writes one row, a successful transition
\* one row, a failed one none); an order that does not exist has none.
C3_HistoryCount ==
    \A o \in Orders :
        Len(history[o]) = (IF orders[o].present THEN 1 ELSE 0) + nTrans[o]

\* C3 witness: an order with two successful transitions, right after a
\* transition on it was rolled back.
C3_Witness ==
    /\ res = "rollback"
    /\ \E o \in Orders : nTrans[o] >= 2 /\ Len(history[o]) = 3

\* C4: two concurrent transitions on one order never both succeed against
\* the same prior status: a transaction that has taken the order's row (its
\* UPDATE ran) read the status that is committed now, so a transition that
\* another one overtook observes the committed status before it writes.
C4_WriterSawCommittedStatus ==
    \A p \in Procs :
        pc[p] = "uos_updated" => arg[p].obs = orders[arg[p].o].status

\* Number of lines whose stock the checkout of process p has written.
LinesDecremented(p) ==
    IF pc[p] \in {"co_stock", "co_dec"} THEN arg[p].n - 1 ELSE Len(arg[p].lines)

\* Quantity of the product that the checkout of process p has taken from
\* the stock so far.
RECURSIVE Taken(_, _, _)
Taken(p, product, n) ==
    IF n = 0 THEN 0
    ELSE (IF arg[p].lines[n].product = product
          THEN arg[p].lines[n].quantity ELSE 0) + Taken(p, product, n - 1)

\* C5: if a checkout fails at any step (in particular when the stock
\* decrement fails for a line of a multi-line checkout), then afterwards no
\* order, order item, payment or history row of that checkout exists, no
\* cart line was deleted and no product's stock changed: the stock the
\* checkout took for the lines processed before the failing one is back.
C5_FailedCheckoutLeavesNothing ==
    [][ \A p \in Procs :
            (pc[p] \in CheckoutSteps /\ pc'[p] = "idle" /\ res' # "ok")
            => ( /\ \A i \in Products :
                       stock'[i] = stock[i] + Taken(p, i, LinesDecremented(p))
                 /\ arg[p].o # 0 =>
                       /\ ~orders'[arg[p].o].present
                       /\ history'[arg[p].o] = <<>>
                       /\ items'[arg[p].o] = <<>>
                 /\ arg[p].k # NilID => ~payments'[arg[p].k].present
                 /\ cart' = cart ) ]_vars

\* C6: partial order creation is never observable: in every state an order
\* row exists if and only if its order items, its creation history row and
\* its payment row exist.
C6_NoPartialOrder ==
    \A o \in Orders :
        /\ orders[o].present =>
              (items[o] # <<>> /\ Len(history[o]) >= 1 /\ HasPayment(o))
        /\ (items[o] # <<>> \/ Len(history[o]) >= 1 \/ HasPayment(o)) =>
              orders[o].present

\* Quantity of the product in a sequence of order item rows.
RECURSIVE SumQty(_, _)
SumQty(rows, product) ==
    IF rows = <<>> THEN 0
    ELSE (IF Head(rows).product = product THEN Head(rows).quantity ELSE 0)
         + SumQty(Tail(rows), product)

\* Quantity of the product over the items of the orders 1..n.
RECURSIVE OrderedQty(_, _)
OrderedQty(product, n) ==
    IF n = 0 THEN 0
    ELSE SumQty(items[n], product) + OrderedQty(product, n - 1)

\* C11: product stock is never negative, and of two checkouts that run
\* concurrently for the last unit of a product exactly one succeeds: the
\* quantity of a product that the orders hold never exceeds the stock there
\* was to sell.
C11_NoOversell ==
    \A i \in Products :
        stock[i] >= 0 /\ OrderedQty(i, MaxOrders) <= MaxStock

\* C15: cancelling an order is all-or-nothing with the restock: the step
\* that makes an order cancelled adds each of its item quantities back to
\* the stock of its product, so no state shows the order cancelled with the
\* stock not restored.
C15_CancelRestocksAtomically ==
    [][ \A o \in Orders :
            ( /\ orders[o].present
              /\ orders[o].status # "cancelled"
              /\ orders'[o].status = "cancelled" )
            => \A i \in Products :
                   stock'[i] = stock[i] + SumQty(items[o], i) ]_vars

PaymentsOf(o) == {k \in PayIDs : payments[k].present /\ payments[k].orderID = o}

\* C17: after any sequence of checkouts and payment creation requests,
\* every order has at most one payment row (Payment.orderID is unique);
\* payment rows come into existence only as part of a checkout.
C17_OnePaymentPerOrder ==
    \A o \in Orders : Cardinality(PaymentsOf(o)) <= 1

\* Sum of a sequence of quantities.
RECURSIVE Sum(_)
Sum(seq) == IF seq = <<>> THEN 0 ELSE Head(seq) + Sum(Tail(seq))

\* Total quantity of the product over the live lines of the buyer's cart.
RECURSIVE QtyInCart(_, _)
QtyInCart(product, n) ==
    IF n = 0 THEN 0
    ELSE (IF /\ cart[n].state = "live"
             /\ cart[n].user = Buyer
             /\ cart[n].product = product
          THEN cart[n].quantity ELSE 0) + QtyInCart(product, n - 1)

\* C12: when AddToCart calls for the same (user, product) run concurrently,
\* no increment is lost: once they have returned, the quantity the cart
\* holds for the product is the sum of all the quantities added (q0+q1+q2).
C12_NoLostIncrement ==
    AllIdle => \A i \in Products : QtyInCart(i, MaxLines) = Sum(added[i])

\* C13: after AddToCart(u, p, q1) followed by AddToCart(u, p, q2), with no
\* other operation in between, the cart holds exactly one line for p and its
\* quantity is q1+q2 (and so on for every further add).
C13_MergeAdd ==
    AllIdle =>
        \A i \in Products :
            IF added[i] = <<>>
            THEN LinesOf(i) = {}
            ELSE \E l \in Lines :
                    LinesOf(i) = {l} /\ cart[l].quantity = Sum(added[i])

\* C13 witness: two adds of one product have returned and the cart holds
\* one line with the sum of their quantities.
C13_Witness ==
    /\ AllIdle
    /\ \E i \in Products, l \in Lines :
          /\ Len(added[i]) = 2
          /\ LinesOf(i) = {l}
          /\ cart[l].quantity = added[i][1] + added[i][2]

C22_CheckoutDecrementsExactly ==
    [][ \A p \in Procs :
           /\ CO_UpdateStock(p)
               => LET line == arg[p].lines[arg[p].n]
                  IN stock' = [stock EXCEPT ![line.product] = @ - line.quantity]
           /\ CO_CreateOrder(p)
               => \E o \in Orders :
                     /\ ~orders[o].present
                     /\ orders'[o].present
                     /\ orders'[o].status = "pending"
           /\ CO_CreatePayment(p)
               => \E k \in PayIDs :
                     /\ ~payments[k].present
                     /\ payments'[k].present
                     /\ payments'[k].status = "pending" ]_vars

C25_QuantityPositive ==
    \A l \in Lines : cart[l].state = "live" => cart[l].quantity > 0

\* C26: UpdateLine(lineID, userID, quantity) on a line that does not exist
\* or that belongs to a different user fails with NotFoundError and changes
\* no cart line.
C26_UpdateLineNotFound ==
    [][ \A p \in Procs, l \in Lines, u \in Users, q \in LineQuantities :
            ( /\ cart[l].state # "live" \/ cart[l].user # u
              /\ UpdateLine(p, l, u, q) )
            => ( /\ res' = "NotFoundError"
                 /\ pc'[p] = "idle"
                 /\ cart' = cart ) ]_vars

\* C26 witness: an UpdateLine has just been refused while the cart table
\* holds a line of another user and a deleted line.
C26_Witness ==
    /\ res = "NotFoundError"
    /\ \E l, m \in Lines :
          /\ cart[l].state = "live" /\ cart[l].user # Buyer
          /\ cart[m].state = "deleted"

\* C27: RemoveLine and ClearCart are idempotent: removing an absent line
\* or clearing an empty cart succeeds without error, and applying either
\* operation twice leaves the same cart state as applying it once.
C27_RemoveAndClearIdempotent ==
    [][ /\ \A p \in Procs, l \in Lines, u \in Users :
              RemoveLine(p, l, u)
              => ( /\ res' = "ok"
                   /\ DeleteLineOf(cart', l, u) = cart'
                   /\ (cart[l].state # "live" => cart' = cart) )
        /\ \A p \in Procs, u \in Users :
              ClearCart(p, u)
              => ( /\ res' = "ok"
                   /\ DeleteLinesOf(cart', u) = cart'
                   /\ \A l \in Lines :
                         cart[l].user # u => cart'[l] = cart[l] ) ]_vars

\* C27 witness: two lines have been deleted from the cart table, by
\* requests that succeeded.
C27_Witness ==
    /\ res = "ok"
    /\ AllIdle
    /\ Cardinality({l \in Lines : cart[l].state = "deleted"}) >= 2

\* C14: in every reachable state, also after concurrent AddToCart calls for
\* a (user, product) pair that has no line yet, the cart holds at most one
\* line per (user, product).
C14_OneLinePerProduct ==
    \A i \in Products : Cardinality(LinesOf(i)) <= 1

\* The stored rows: orders, their history and the payments.
Stored == <<orders, history, payments>>

\* C7: applying the same successful callback (same payment, status paid,
\* same amount) again after it was applied yields no second paid state and
\* no second order transition: the application on the already paid payment
\* succeeds and writes nothing to the payment, the order or the history.
C7_DuplicatePaidIsNoOp ==
    [][ \A p \in Procs, k \in PayIDs :
            ( /\ payments[k].present
              /\ payments[k].status = "paid"
              /\ ApplyCallback(p, k, "paid", payments[k].amount) )
            => ( /\ res' = "ok_duplicate"
                 /\ pc'[p] = "idle"
                 /\ Stored' = Stored ) ]_vars

\* Number of rows of a history that a payment callback wrote.
PaymentRows(rows) ==
    Cardinality({i \in 1..Len(rows) : rows[i].notes = "payment"})

\* C7 witness: a duplicate of a successful callback has just been answered;
\* the payment is paid once and its order went pending->confirmed once.
C7_Witness ==
    /\ res = "ok_duplicate"
    /\ \E k \in PayIDs :
          /\ payments[k].present /\ payments[k].status = "paid"
          /\ orders[payments[k].orderID].status = "confirmed"
          /\ PaymentRows(history[payments[k].orderID]) = 1

CallbackStep(p) == arg[p].k # NilID /\ pc'[p] # pc[p]

\* C18: a successful callback with matching amount on a pending payment
\* sets Payment.status to paid with paidAt set, and moves the associated
\* pending order to confirmed, adding exactly one history row
\* pending->confirmed: its payment write stores paid and paidAt, the commit
\* of its transition on a pending order stores confirmed and appends the
\* row, and no other step of the callback touches the history.
C18_PaidCallbackConfirms ==
    [][ \A p \in Procs :
            (CallbackStep(p) /\ arg[p].to \in {"paid", "confirmed"})
            => LET k == arg[p].k
                   o == arg[p].o
               IN /\ pc[p] = "cb_pay" /\ pc'[p] = "cb_link"
                       => ( /\ payments'[k].status = "paid"
                            /\ payments'[k].paidAt
                            /\ payments'[k].amount = payments[k].amount )
                  /\ ( /\ pc[p] = "uos_updated" /\ res' = "ok"
                       /\ orders[o].status = "pending" )
                       => ( /\ orders'[o].status = "confirmed"
                            /\ history'[o] = Append(history[o],
                                   [fromStatus |-> "pending",
                                    toStatus |-> "confirmed",
                                    notes |-> "payment"]) )
                  /\ ~(pc[p] = "uos_updated" /\ res' = "ok")
                       => history' = history ]_vars

\* C19: a callback that maps to failure sets Payment.status to failed and
\* leaves the order's status and its status history unchanged: a payment
\* failure never cancels the order.
C19_FailureLeavesOrder ==
    [][ \A p \in Procs :
            (CallbackStep(p) /\ arg[p].to = "failed")
            => LET k == arg[p].k
                   o == arg[p].o
               IN /\ pc[p] = "cb_pay" /\ pc'[p] = "cb_link"
                       => ( /\ payments'[k].status = "failed"
                            /\ payments'[k].paidAt = payments[k].paidAt )
                  /\ orders'[o].status = orders[o].status
                  /\ history' = history
                  /\ pc'[p] \in {"cb_link", "idle"} ]_vars

\* C19 witness: a failure callback has returned; the payment is failed and
\* its order, which carries the failed payment status, is still pending
\* with the creation row as its whole history.
C19_Witness ==
    /\ res = "ok"
    /\ AllIdle
    /\ \E k \in PayIDs :
          /\ payments[k].present /\ payments[k].status = "failed"
          /\ LET o == payments[k].orderID
             IN /\ orders[o].status = "pending"
                /\ orders[o].paymentStatus = "failed"
                /\ orders[o].paymentID = k
                /\ Len(history[o]) = 1

\* C20: a callback whose reference matches no payment fails with
\* UnknownPaymentError, creates no payment row and changes no order.
C20_UnknownPaymentRejected ==
    [][ \A p \in Procs, k \in PayIDs, s \in CallbackStatuses, a \in Amounts :
            (~payments[k].present /\ ApplyCallback(p, k, s, a))
            => ( /\ res' = "UnknownPaymentError"
                 /\ pc'[p] = "idle"
                 /\ Stored' = Stored ) ]_vars

\* C20 witness: a callback for a reference that matches no payment has
\* just been rejected while an order and a payment of another reference
\* exist.
C20_Witness ==
    /\ res = "UnknownPaymentError"
    /\ \E k \in PayIDs : ~payments[k].present
    /\ \E k \in PayIDs : payments[k].present
    /\ \E o \in Orders : orders[o].present

\* C28: the history rows of an order, in creation order, form a chain: the
\* first row has an empty fromStatus and toStatus pending, and every later
\* row's fromStatus equals the toStatus of the row immediately before it,
\* under every interleaving of concurrent transitions.
C28_HistoryIsChain ==
    \A o \in Orders :
        Len(history[o]) >= 1 =>
            /\ history[o][1].fromStatus = ""
            /\ history[o][1].toStatus = "pending"
            /\ \A i \in 2..Len(history[o]) :
                   history[o][i].fromStatus = history[o][i - 1].toStatus

\* C29: the status history is append-only: once a history row exists no
\* operation changes or removes it, so at every step the history of an
\* order is an extension of its history at the previous step.
C29_HistoryAppendOnly ==
    [][ \A o \in Orders :
            /\ Len(history'[o]) >= Len(history[o])
            /\ SubSeq(history'[o], 1, Len(history[o])) = history[o] ]_vars

\* C29 witness: an order whose history was extended twice after its
\* creation row, which is still its first row.
C29_Witness ==
    \E o \in Orders :
        /\ Len(history[o]) = 3
        /\ history[o][1] = CreationHistory([status |-> "pending"])
        /\ history[o][2].notes = "transition"
        /\ history[o][3].notes = "transition"

\* C30: when the same successful callback is delivered twice concurrently
\* for one payment, payment application is serialized per order: exactly
\* one delivery performs the order transition and writes one history row,
\* and the other observes the paid state and writes nothing.  So the
\* callbacks never write more than one history row for an order.
C30_OneTransitionPerOrder ==
    \A o \in Orders : PaymentRows(history[o]) <= 1

\* C9: a terminal payment status (paid, failed, refunded) never changes to
\* a different status: a callback that maps to another terminal status
\* fails and the stored status is not overwritten.
C9_TerminalStatusIsFinal ==
    [][ \A k \in PayIDs :
            (payments[k].present /\ payments[k].status \in TerminalPayment)
            => payments'[k].status = payments[k].status ]_vars

\* C10: the payment write and the order write of a callback are atomic: no
\* state shows a payment paid while its order is still pending.  Stated for
\* the states in which no request is running (every callback has returned
\* or died), the least the claim demands.
C10_NoPaidPendingAtRest ==
    (\A p \in Procs : pc[p] = "idle") =>
        \A k \in PayIDs :
            (payments[k].present /\ payments[k].status = "paid")
            => orders[payments[k].orderID].status # "pending"

\* C33: in every reachable state a payment's paidAt is set if and only if
\* its status is paid, after any sequence of payment status updates.
C33_PaidAtIffPaid ==
    \A k \in PayIDs :
        payments[k].present
        => (payments[k].paidAt <=> payments[k].status = "paid")

\* C34: in every state outside an in-progress payment update, an order's
\* paymentStatus equals the status of the payment row it is linked to, and
\* its paymentID refers to a payment whose orderID is that order.
C34_OrderMirrorsPayment ==
    AllIdle =>
        \A o \in Orders :
            (orders[o].present /\ orders[o].paymentID # NilID)
            => LET payment == payments[orders[o].paymentID]
               IN /\ payment.present
                  /\ payment.orderID = o
                  /\ payment.status = orders[o].paymentStatus

\* C31: on every product stock change the product's cache entry is
\* invalidated (deleted), never overwritten in place with a value computed
\* by the request: the stock update leaves no entry under the key.
C31_StockChangeInvalidates ==
    [][ \A p \in Procs :
            US_Cache(p) => cache'[arg[p].product] = NoEntry ]_vars

\* C40: UpdateProduct changes only the fields supplied in the request: a
\* request that omits stock (or price) leaves the stored stock (or price)
\* unchanged.  An omitted field arrives as the zero value.
C40_OmittedFieldsUnchanged ==
    [][ \A i \in Products, v \in PriceRequests, r \in StockRequests :
            UpdateProduct(i, v, r)
            => /\ v = 0 => price'[i] = price[i]
               /\ r = 0 => stock'[i] = stock[i] ]_vars

\* Quantity of the product over the items of those of the orders 1..n that
\* are not cancelled.
RECURSIVE HeldQty(_, _)
HeldQty(product, n) ==
    IF n = 0 THEN 0
    ELSE (IF orders[n].present /\ orders[n].status # "cancelled"
          THEN SumQty(items[n], product) ELSE 0) + HeldQty(product, n - 1)

\* C32: stock is conserved: for each product, absent direct seller stock
\* updates, stock plus the sum of the product's quantities over all
\* non-cancelled orders is constant across any sequence and interleaving of
\* checkouts and cancellations.  Stated for the states in which no request
\* is running.
C32_StockConserved ==
    AllIdle =>
        \A i \in Products : stock[i] + HeldQty(i, MaxOrders) = MaxStock

\* C38: after any interleaving of Register calls at most one user row holds
\* an email, and a Register step taken while a row holds its email inserts no
\* row, stores no refresh token, never proceeds to the token store and, when it
\* returns, returns an error.
C38_OneUserPerEmail ==
    [][ /\ \A e \in Emails :
            Cardinality({a \in Accounts : /\ users'[a].present
                                          /\ users'[a].email = e}) <= 1
        /\ \A p \in Procs, e \in Emails :
            (/\ Register(p, e) \/ (RG_Create(p) /\ arg[p].email = e)
             /\ \E a \in Accounts : users[a].present /\ users[a].email = e)
            => /\ users' = users
               /\ tokens' = tokens
               /\ pc'[p] # "rg_store"
               /\ pc'[p] = "idle" =>
                      res' \in {"user already exists", "duplicate key"} ]_vars

\* C38 witness: a Register lost the race for its email: it passed the lookup,
\* another call inserted the row, and its own insert was refused.
C38_Witness ==
    /\ res = "duplicate key"
    /\ \E a \in Accounts : users[a].present /\ ~users[a].deleted
    /\ tokens # {}

\* C35: a refresh token is single-use: a RefreshToken call succeeds only with a
\* token no earlier call succeeded with since a login or registration stored
\* it, and after a successful call the token it was called with is not in the
\* token store (unless the pair it issued carries the very same token).
C35_RefreshSingleUse ==
    [][ \A p \in Procs : RT_Store(p) =>
            /\ arg[p].token \notin used
            /\ arg[p].fresh # arg[p].token => arg[p].token \notin tokens' ]_vars

\* C36: once Logout(t) has completed, no RefreshToken(t) call issues and stores
\* a new token pair for the session of t.
C36_NoRefreshAfterLogout ==
    [][ \A p \in Procs : RT_Store(p) => arg[p].token \notin loggedOut ]_vars

\* C37: no Login and no RefreshToken stores tokens for a user who is
\* deactivated at that moment (status changes happen between requests).
C37_DeactivatedGetsNoTokens ==
    [][ \A p \in Procs : (RT_Store(p) \/ LG_Store(p)) =>
            users[arg[p].account].active ]_vars

\* C39: after any interleaving of CreateReview calls at most one review row
\* exists per (user, product).
C39_OneReviewPerUserProduct ==
    \A u \in Users, i \in Products : reviews[<<u, i>>] <= 1

====
